---- MODULE Spec2Model ----
(***************************************************************************)
(* A model of agentkvm's action loop (src/agent.py): the command-safety    *)
(* validator, the response parser, the executor, the action-history       *)
(* ledger and the iteration loop of main().                                *)
(*                                                                         *)
(* Python strings are sequences of one-character strings, so that prefix   *)
(* tests, substring tests, slices, strip() and upper() are computed the    *)
(* way the code computes them.  External collaborators (screenshot         *)
(* capture, prompt text, dependency detection) are not modelled: they do   *)
(* not touch the state below.                                              *)
(***************************************************************************)
EXTENDS Integers, Sequences, FiniteSets, TLC

VARIABLES
    pc,           \* position in main(), or in a function harness ("fn_...")
    plat,         \* detect_platform()
    input_tool,   \* detect_input_tool() on Linux, None elsewhere
    goal,         \* args.goal
    reset,        \* args.reset
    max_iter,     \* args.max_iter
    file,         \* content of action_history.json, or NoFile
    data,         \* history.data, or NoData before ActionHistory is built
    clock,        \* datetime.now(), as a logical clock
    iteration,    \* the for loop's variable
    response,     \* raw text returned by backend.call
    observation,  \* extract_blocks(response)[0]
    reasoning,    \* extract_blocks(response)[1]
    commands,     \* extract_blocks(response)[2]
    validation,   \* (all_valid, error, failed_idx) of validate_commands
    results,      \* the list execute_commands is building / has returned
    ran,          \* commands handed to the shell in this iteration
    calls,        \* backend.call invocations of this run
    appended,     \* add_action invocations of this run
    before,       \* <<data, file>> as the current iteration found them
    outcome,      \* "Running" or the terminal state of the loop
    exit_code,    \* the process exit code, or NoExit while running
    section,      \* harness: the lines written into a response's ###CMD section
    max_actions,  \* harness: the argument of get_context
    context       \* harness: the text get_context returned

\* the variables only the function harnesses use
harness_vars == <<section, max_actions, context>>

vars == <<pc, plat, input_tool, goal, reset, max_iter, file, data, clock,
          iteration, response, observation, reasoning, commands, validation,
          results, ran, calls, appended, before, outcome, exit_code,
          section, max_actions, context>>

(***************************************************************************)
(* Bounds of the model.                                                    *)
(***************************************************************************)
\* largest --max-iter value tried
MaxIter == 2
\* longest batch handed to validate_commands in the validator harness
MaxBatch == 2

None == "None"
\* no action_history.json on disk; otherwise file is <<session>>
NoFile == <<>>
\* history not built yet; otherwise data is <<session>>
NoData == <<>>
\* the process has not exited; otherwise exit_code is <<code>>
NoExit == <<>>

(***************************************************************************)
(* Python str operations on character sequences.                           *)
(***************************************************************************)
Min(a, b) == IF a < b THEN a ELSE b

\* the whitespace characters str.strip() removes and the regex matches
IsSpace(c) == c \in {" ", "\t", "\n", "\r"}

\* s[i:i+len(p)] == p, i counted from 1
MatchAt(s, p, i) ==
    /\ i >= 1
    /\ i + Len(p) - 1 <= Len(s)
    /\ SubSeq(s, i, i + Len(p) - 1) = p

\* s.startswith(p)
StartsWith(s, p) == MatchAt(s, p, 1)

\* p in s
Contains(s, p) == \E i \in 1..(Len(s) - Len(p) + 1) : MatchAt(s, p, i)

\* s[:n]
Slice(s, n) == SubSeq(s, 1, Min(n, Len(s)))

\* s.strip()
Strip(s) ==
    LET keep == {i \in 1..Len(s) : ~IsSpace(s[i])}
    IN  IF keep = {} THEN <<>>
        ELSE LET lo == CHOOSE i \in keep : \A j \in keep : i <= j
                 hi == CHOOSE i \in keep : \A j \in keep : j <= i
             IN  SubSeq(s, lo, hi)

LowerAlpha == <<"a","b","c","d","e","f","g","h","i","j","k","l","m","n","o","p","q","r","s","t","u","v","w","x","y","z">>
UpperAlpha == <<"A","B","C","D","E","F","G","H","I","J","K","L","M","N","O","P","Q","R","S","T","U","V","W","X","Y","Z">>

UpperChar(c) ==
    IF \E k \in 1..26 : LowerAlpha[k] = c
    THEN UpperAlpha[CHOOSE k \in 1..26 : LowerAlpha[k] = c]
    ELSE c

\* s.upper(), on the ASCII alphabet
Upper(s) == [i \in 1..Len(s) |-> UpperChar(s[i])]

Digits == <<"0","1","2","3","4","5","6","7","8","9">>

RECURSIVE IntStr(_)
\* str(n) for n >= 0
IntStr(n) ==
    IF n < 10 THEN <<Digits[n + 1]>>
    ELSE IntStr(n \div 10) \o <<Digits[(n % 10) + 1]>>

RECURSIVE Join(_, _)
\* sep.join(parts)
Join(sep, parts) ==
    IF parts = <<>> THEN <<>>
    ELSE IF Len(parts) = 1 THEN parts[1]
    ELSE parts[1] \o sep \o Join(sep, Tail(parts))

\* repr() of a tuple of (two or more) plain strings: ('a', 'b')
TupleRepr(t) ==
    <<"(">> \o Join(<<","," ">>, [i \in 1..Len(t) |-> <<"'">> \o t[i] \o <<"'">>]) \o <<")">>

(***************************************************************************)
(* Platform (src/agent.py:36-39) and the input tools.                      *)
(***************************************************************************)
MACOS == "macos"
LINUX == "linux"
UNKNOWN == "unknown"

PlatformName(p) ==
    IF p = MACOS THEN <<"m","a","c","o","s">> ELSE IF p = LINUX THEN <<"l","i","n","u","x">> ELSE <<"u","n","k","n","o","w","n">>

\* the (plat, input_tool) pairs main() passes on: the platform is supported
\* and on Linux check_dependencies requires one of the two input tools
Environments == { <<MACOS, None>>, <<LINUX, "ydotool">>, <<LINUX, "xdotool">> }

\* pairs main() stops on before the loop: an unknown platform, and Linux
\* with neither input tool installed
UnsupportedEnvironments == { <<UNKNOWN, None>>, <<LINUX, None>> }

(***************************************************************************)
(* validate_command / validate_commands.                                   *)
(***************************************************************************)
\* the tuple allowed_prefixes, or <<>> on an unsupported platform
allowed_prefixes(p, tool) ==
    IF p = MACOS THEN << <<"c","l","i","c","l","i","c","k">>, <<"o","s","a","s","c","r","i","p","t">> >>
    ELSE IF p = LINUX THEN
        IF tool = "ydotool" THEN << <<"y","d","o","t","o","o","l">>, <<"w","m","c","t","r","l">> >>
        ELSE << <<"x","d","o","t","o","o","l">>, <<"w","m","c","t","r","l">> >>
    ELSE <<>>

\* the backquote character (written by its code point: the TLA+ lexer
\* pairs a literal backquote with a later apostrophe, even in a string)
BackQuote == "U+0060"

\* mutant of dangerous_base: the backquote is missing from the list
dangerous_base_no_backquote ==
    << <<"r","m"," ">>, <<"s","u","d","o">>, <<"c","u","r","l"," ">>, <<"w","g","e","t"," ">>, <<"k","i","l","l"," ">>, <<"p","k","i","l","l">>, <<">",">">>,
       <<";">>, <<"$","(">>, <<"e","v","a","l"," ">> >>

\* the list dangerous as first written
dangerous_base ==
    << <<"r","m"," ">>, <<"s","u","d","o">>, <<"c","u","r","l"," ">>, <<"w","g","e","t"," ">>, <<"k","i","l","l"," ">>, <<"p","k","i","l","l">>, <<">",">">>,
       <<";">>, <<BackQuote>>, <<"$","(">>, <<"e","v","a","l"," ">> >>

AndAnd == <<"&","&">>
OrOr == <<"|","|">>
MoveHead == <<"y","d","o","t","o","o","l"," ","m","o","u","s","e","m","o","v","e">>
ClickHead == <<"y","d","o","t","o","o","l"," ","c","l","i","c","k">>

RECURSIVE SkipSpaces(_, _)
\* the first index >= i of cmd that holds no whitespace (Len(cmd)+1 if none)
SkipSpaces(cmd, i) ==
    IF i <= Len(cmd) /\ IsSpace(cmd[i]) THEN SkipSpaces(cmd, i + 1) ELSE i

\* re.match of the move-then-click pattern: the text starts with MoveHead,
\* has any characters but a newline, then AndAnd, optional whitespace and
\* ClickHead
move_click_match(cmd) ==
    /\ StartsWith(cmd, MoveHead)
    /\ \E i \in (Len(MoveHead) + 1)..Len(cmd) :
          /\ \A k \in (Len(MoveHead) + 1)..(i - 1) : cmd[k] # "\n"
          /\ MatchAt(cmd, AndAnd, i)
          /\ MatchAt(cmd, ClickHead, SkipSpaces(cmd, i + 2))

\* the list dangerous after the conditional appends of "&&" and "||"
dangerous(cmd, tool) ==
    dangerous_base
    \o (IF tool = "ydotool" /\ Contains(cmd, AndAnd)
        THEN (IF ~move_click_match(cmd) THEN <<AndAnd>> ELSE <<>>)
        ELSE IF Contains(cmd, AndAnd) THEN <<AndAnd>> ELSE <<>>)
    \o (IF Contains(cmd, OrOr) THEN <<OrOr>> ELSE <<>>)

\* mutant of has_allowed_prefix: all() where the code has any()
has_allowed_prefix_all(cmd, p, tool) ==
    \A k \in 1..Len(allowed_prefixes(p, tool)) :
        StartsWith(cmd, allowed_prefixes(p, tool)[k])

\* any(cmd.startswith(p) for p in allowed_prefixes)
has_allowed_prefix(cmd, p, tool) ==
    \E k \in 1..Len(allowed_prefixes(p, tool)) :
        StartsWith(cmd, allowed_prefixes(p, tool)[k])

\* the first d of dangerous with d in cmd, as <<d>>; <<>> when there is none
first_dangerous(cmd, tool) ==
    LET dang == dangerous(cmd, tool)
        hits == {k \in 1..Len(dang) : Contains(cmd, dang[k])}
    IN  IF hits = {} THEN <<>>
        ELSE <<dang[CHOOSE k \in hits : \A j \in hits : k <= j]>>

\* mutant of validate_command: the dangerous list is searched before the
\* prefixes are tried
validate_command_forbidden_first(cmd, p, tool) ==
    IF cmd = <<>> THEN <<FALSE, <<"E","m","p","t","y"," ","c","o","m","m","a","n","d">> >>
    ELSE IF p \notin {MACOS, LINUX}
    THEN <<FALSE, <<"U","n","s","u","p","p","o","r","t","e","d"," ","p","l","a","t","f","o","r","m",":"," ">> \o PlatformName(p)>>
    ELSE IF first_dangerous(cmd, tool) # <<>>
    THEN <<FALSE, <<"C","o","m","m","a","n","d"," ","c","o","n","t","a","i","n","s"," ","f","o","r","b","i","d","d","e","n"," ","p","a","t","t","e","r","n"," ","'">>
                  \o first_dangerous(cmd, tool)[1] \o <<"'">> >>
    ELSE IF ~has_allowed_prefix(cmd, p, tool)
    THEN <<FALSE, <<"C","o","m","m","a","n","d"," ","m","u","s","t"," ","s","t","a","r","t"," ","w","i","t","h"," ","o","n","e"," ","o","f"," ">>
                  \o TupleRepr(allowed_prefixes(p, tool))
                  \o <<"."," ","G","o","t",":"," ">> \o cmd>>
    ELSE <<TRUE, <<>> >>

\* (is_valid, error) for one command
validate_command(cmd, p, tool) ==
    IF cmd = <<>> THEN <<FALSE, <<"E","m","p","t","y"," ","c","o","m","m","a","n","d">> >>
    ELSE IF p \notin {MACOS, LINUX}
    THEN <<FALSE, <<"U","n","s","u","p","p","o","r","t","e","d"," ","p","l","a","t","f","o","r","m",":"," ">> \o PlatformName(p)>>
    ELSE IF ~has_allowed_prefix(cmd, p, tool)
    THEN <<FALSE, <<"C","o","m","m","a","n","d"," ","m","u","s","t"," ","s","t","a","r","t"," ","w","i","t","h"," ","o","n","e"," ","o","f"," ">>
                  \o TupleRepr(allowed_prefixes(p, tool))
                  \o <<"."," ","G","o","t",":"," ">> \o cmd>>
    ELSE IF first_dangerous(cmd, tool) # <<>>
    THEN <<FALSE, <<"C","o","m","m","a","n","d"," ","c","o","n","t","a","i","n","s"," ","f","o","r","b","i","d","d","e","n"," ","p","a","t","t","e","r","n"," ","'">>
                  \o first_dangerous(cmd, tool)[1] \o <<"'">> >>
    ELSE <<TRUE, <<>> >>

\* mutant of validate_commands: only the first command is validated
validate_commands_first_only(cmds, p, tool) ==
    IF cmds = <<>> THEN <<FALSE, <<"N","o"," ","c","o","m","m","a","n","d","s"," ","p","r","o","v","i","d","e","d">>, -1>>
    ELSE IF ~validate_command(cmds[1], p, tool)[1]
    THEN <<FALSE, <<"C","o","m","m","a","n","d"," ","1",":"," ">> \o validate_command(cmds[1], p, tool)[2], 0>>
    ELSE <<TRUE, <<>>, -1>>

\* (ok, message, failing index); the index is 0-based as in the code, -1 for none
validate_commands(cmds, p, tool) ==
    IF cmds = <<>> THEN <<FALSE, <<"N","o"," ","c","o","m","m","a","n","d","s"," ","p","r","o","v","i","d","e","d">>, -1>>
    ELSE LET bad == {i \in 1..Len(cmds) : ~validate_command(cmds[i], p, tool)[1]}
         IN  IF bad # {}
             THEN LET i == CHOOSE i \in bad : \A j \in bad : i <= j
                  IN  <<FALSE,
                        <<"C","o","m","m","a","n","d"," ">> \o IntStr(i) \o <<":"," ">>
                            \o validate_command(cmds[i], p, tool)[2],
                        i - 1>>
             ELSE <<TRUE, <<>>, -1>>

(***************************************************************************)
(* extract_blocks.                                                         *)
(***************************************************************************)
\* lines[:5]
MaxCommands == 5

Hashes == <<"#","#","#">>
OBS == <<"#","#","#","O","B","S">>
THINK == <<"#","#","#","T","H","I","N","K">>
CMD == <<"#","#","#","C","M","D">>

\* the marker matches at i and the whitespace after it holds a newline,
\* which is what the pattern asks for between the marker and the group
MarkerAt(text, marker, i) ==
    /\ MatchAt(text, marker, i)
    /\ \E k \in (i + Len(marker))..(SkipSpaces(text, i + Len(marker)) - 1) :
          text[k] = "\n"

RECURSIVE BlockEnd(_, _)
\* where the lazy group stops: the first index >= i at which Hashes follows
\* or the text ends (a group ending before a final newline strips the same)
BlockEnd(text, i) ==
    IF i > Len(text) \/ MatchAt(text, Hashes, i) THEN i
    ELSE BlockEnd(text, i + 1)

\* re.search for a block, leftmost match: <<>> for no match, else
\* <<group(1)>>.  The whitespace match is greedy, so the group starts after
\* the last newline of the whitespace that follows the marker
SearchBlock(text, marker) ==
    LET at == {i \in 1..Len(text) : MarkerAt(text, marker, i)}
    IN  IF at = {} THEN <<>>
        ELSE LET i == CHOOSE i \in at : \A j \in at : i <= j
                 ws == SkipSpaces(text, i + Len(marker))
                 nl == CHOOSE k \in (i + Len(marker))..(ws - 1) :
                          /\ text[k] = "\n"
                          /\ \A m \in (k + 1)..(ws - 1) : text[m] # "\n"
             IN  << SubSeq(text, nl + 1, BlockEnd(text, nl + 1) - 1) >>

RECURSIVE SplitLines(_)
\* s.split('\n')
SplitLines(s) ==
    LET nls == {i \in 1..Len(s) : s[i] = "\n"}
    IN  IF nls = {} THEN <<s>>
        ELSE LET i == CHOOSE i \in nls : \A j \in nls : i <= j
             IN  <<SubSeq(s, 1, i - 1)>> \o SplitLines(SubSeq(s, i + 1, Len(s)))

\* [l.strip() for l in lines if l.strip()]
StrippedLines(lines) ==
    SelectSeq([i \in 1..Len(lines) |-> Strip(lines[i])], LAMBDA l : l # <<>>)

\* mutant of extract_blocks: every line of the command section is kept
extract_blocks_unlimited(text) ==
    LET o == SearchBlock(text, OBS)
        t == SearchBlock(text, THINK)
        c == SearchBlock(text, CMD)
    IN  << IF o = <<>> THEN <<>> ELSE Strip(o[1]),
           IF t = <<>> THEN <<>> ELSE Strip(t[1]),
           IF c = <<>> THEN <<>>
           ELSE StrippedLines(SplitLines(Strip(c[1]))) >>

\* mutant of extract_blocks: without a command section the lines of the
\* whole text are taken as the commands
extract_blocks_lenient(text) ==
    LET o == SearchBlock(text, OBS)
        t == SearchBlock(text, THINK)
        c == SearchBlock(text, CMD)
        lines == StrippedLines(SplitLines(Strip(IF c = <<>> THEN text ELSE c[1])))
    IN  << IF o = <<>> THEN <<>> ELSE Strip(o[1]),
           IF t = <<>> THEN <<>> ELSE Strip(t[1]),
           SubSeq(lines, 1, Min(MaxCommands, Len(lines))) >>

\* (obs, think, commands)
extract_blocks(text) ==
    LET o == SearchBlock(text, OBS)
        t == SearchBlock(text, THINK)
        c == SearchBlock(text, CMD)
    IN  << IF o = <<>> THEN <<>> ELSE Strip(o[1]),
           IF t = <<>> THEN <<>> ELSE Strip(t[1]),
           IF c = <<>> THEN <<>>
           ELSE LET lines == StrippedLines(SplitLines(Strip(c[1])))
                IN  SubSeq(lines, 1, Min(MaxCommands, Len(lines))) >>

(***************************************************************************)
(* execute_command: one shell invocation.  What the process does is the    *)
(* environment's choice; the return value is computed from it.             *)
(***************************************************************************)
\* output[:200]
OutputLen == 200

\* the things subprocess.run can do: exit 0, exit non-zero, exceed the
\* 30 s timeout, or raise another exception
Behaviours ==
    { [kind |-> "exit0", text |-> <<>>],
      [kind |-> "nonzero", text |-> <<"n","o"," ","w","i","n","d","o","w">>],
      [kind |-> "timeout", text |-> <<>>],
      [kind |-> "exception", text |-> <<"d","e","n","i","e","d">>] }

\* (success, result)
execute_command(cmd, b) ==
    IF b.kind = "exit0"
    THEN <<TRUE, IF b.text # <<>> THEN Slice(b.text, OutputLen) ELSE <<"O","K">> >>
    ELSE IF b.kind = "nonzero"
    THEN <<FALSE, <<"F","A","I","L","E","D",":"," ">> \o Slice(b.text, OutputLen)>>
    ELSE IF b.kind = "timeout"
    THEN <<FALSE, <<"T","I","M","E","O","U","T"," ","a","f","t","e","r"," ","3","0","s">> >>
    ELSE <<FALSE, <<"E","R","R","O","R",":"," ">> \o b.text>>

\* mutant of execute_done: no break after a failed command
execute_done_no_break(cmds, res) == Len(res) >= Len(cmds)

\* execute_commands has left its for loop: the list is exhausted or the last
\* command run failed (break)
execute_done(cmds, res) ==
    \/ Len(res) >= Len(cmds)
    \/ (res # <<>> /\ ~res[Len(res)][2])

(***************************************************************************)
(* ActionHistory.  file holds the JSON document json.dump last wrote.      *)
(*                                                                         *)
(* A JSON value is [t |-> type, v |-> content]: an object's content is a   *)
(* function from its keys, an array's a sequence of JSON values.           *)
(***************************************************************************)
\* the encoding of one Action: ints to numbers, the bool to true/false, the
\* list of commands to an array of strings, every other value to a string
dump_action(a) ==
    [t |-> "object",
     v |-> [k \in DOMAIN a |->
              IF k \in {"iteration", "commands_count", "executed_count"}
              THEN [t |-> "number", v |-> a[k]]
              ELSE IF k = "all_succeeded" THEN [t |-> "bool", v |-> a[k]]
              ELSE IF k = "commands"
              THEN [t |-> "array",
                    v |-> [i \in 1..Len(a[k]) |-> [t |-> "string", v |-> a[k][i]]]]
              ELSE [t |-> "string", v |-> a[k]]]]

\* json.dump(self.data, f, indent=2): the document written for a session
json_dump(d) ==
    [t |-> "object",
     v |-> [k \in DOMAIN d |->
              IF k = "iterations" THEN [t |-> "number", v |-> d[k]]
              ELSE IF k = "actions"
              THEN [t |-> "array",
                    v |-> [i \in 1..Len(d[k]) |-> dump_action(d[k][i])]]
              ELSE [t |-> "string", v |-> d[k]]]]

RECURSIVE json_load(_)
\* json.load(f): objects to dicts, arrays to lists, the rest to its value
json_load(j) ==
    IF j.t = "object" THEN [k \in DOMAIN j.v |-> json_load(j.v[k])]
    ELSE IF j.t = "array" THEN [i \in 1..Len(j.v) |-> json_load(j.v[i])]
    ELSE j.v

\* mutant of save: the write is put off, the file stays as it was
save_deferred(f, d) == f

\* the file after _save, given the file before and self.data
save(f, d) == <<json_dump(d)>>

\* self.data after _load
load(f) == json_load(f[1])

\* res[:50] in the result summary
SummaryLen == 50

\* self.data as _init_history builds it
init_history(g, now) ==
    [goal |-> g, started_at |-> now, status |-> "in_progress",
     iterations |-> 0, actions |-> <<>>]

\* results_str
result_summary(res) ==
    IF res = <<>> THEN <<"N","o"," ","e","x","e","c","u","t","i","o","n">>
    ELSE Join(<<" ","|"," ">>,
              [i \in 1..Len(res) |->
                  <<"[">> \o (IF res[i][2] THEN <<"O","K">> ELSE <<"F","A","I","L">>) \o <<"]"," ">>
                  \o Slice(res[i][3], SummaryLen)])

\* all(r[1] for r in results) if results else False
all_succeeded(res) ==
    IF res # <<>> THEN \A i \in 1..Len(res) : res[i][2] ELSE FALSE

\* mutant of add_action: the new Action replaces the stored ones
add_action_overwrites(d, it, obs, think, cmds, res, now) ==
    [d EXCEPT
        !.iterations = it,
        !.actions =
           <<[iteration |-> it,
              timestamp |-> now,
              observation |-> obs,
              reasoning |-> think,
              commands |-> cmds,
              commands_count |-> Len(cmds),
              executed_count |-> Len(res),
              all_succeeded |-> all_succeeded(res),
              result_summary |-> result_summary(res)]>>]

\* mutant of add_action: the iterations field is left alone
add_action_keeps_iterations(d, it, obs, think, cmds, res, now) ==
    [d EXCEPT
        !.actions = Append(@,
            [iteration |-> it,
             timestamp |-> now,
             observation |-> obs,
             reasoning |-> think,
             commands |-> cmds,
             commands_count |-> Len(cmds),
             executed_count |-> Len(res),
             all_succeeded |-> all_succeeded(res),
             result_summary |-> result_summary(res)])]

\* self.data after add_action
add_action(d, it, obs, think, cmds, res, now) ==
    [d EXCEPT
        !.iterations = it,
        !.actions = Append(@,
            [iteration |-> it,
             timestamp |-> now,
             observation |-> obs,
             reasoning |-> think,
             commands |-> cmds,
             commands_count |-> Len(cmds),
             executed_count |-> Len(res),
             all_succeeded |-> all_succeeded(res),
             result_summary |-> result_summary(res)])]

\* mutant of mark_completed: completed_at is set, the status is not
mark_completed_keeps_status(d, now) ==
    [k \in DOMAIN d \cup {"completed_at"} |->
        IF k = "completed_at" THEN now ELSE d[k]]

\* self.data after mark_completed
mark_completed(d, now) ==
    [k \in DOMAIN d \cup {"completed_at"} |->
        IF k = "status" THEN "completed"
        ELSE IF k = "completed_at" THEN now
        ELSE d[k]]

(***************************************************************************)
(* ActionHistory.get_context: the text put into the next prompt.           *)
(***************************************************************************)
\* the characters of the goals and status values of the model
text_of(s) ==
    CASE s = "open files" -> <<"o","p","e","n"," ","f","i","l","e","s">>
      [] s = "close files" -> <<"c","l","o","s","e"," ","f","i","l","e","s">>
      [] s = "in_progress" -> <<"i","n","_","p","r","o","g","r","e","s","s">>
      [] s = "completed" -> <<"c","o","m","p","l","e","t","e","d">>

\* lst[-k:]: the last k elements for k > 0; for k = 0 the index -0 is 0 and
\* the slice is the whole list; for k < 0 the first -k elements are dropped
last_slice(lst, k) ==
    IF k > 0
    THEN SubSeq(lst, (IF Len(lst) > k THEN Len(lst) - k + 1 ELSE 1), Len(lst))
    ELSE SubSeq(lst, 1 - k, Len(lst))

RECURSIVE Flatten(_)
\* the concatenation of a list of lists
Flatten(ss) == IF ss = <<>> THEN <<>> ELSE Head(ss) \o Flatten(Tail(ss))

\* the lines get_context appends for one Action; an Action of the older
\* format has "command" and "result" where the newer has "commands"
context_lines(a) ==
    LET new == "commands" \in DOMAIN a
        cmd_count == IF "commands_count" \in DOMAIN a THEN a.commands_count
                     ELSE Len(a.commands)
        exec_count == IF "executed_count" \in DOMAIN a THEN a.executed_count
                      ELSE cmd_count
        head == <<" "," ","[">> \o IntStr(a.iteration) \o <<"]"," ">>
        result == IF new
                  THEN (IF "result_summary" \in DOMAIN a THEN a.result_summary
                        ELSE <<>>)
                  ELSE (IF "result" \in DOMAIN a THEN a.result ELSE <<>>)
        reason == IF "reasoning" \in DOMAIN a THEN a.reasoning ELSE <<>>
    IN  (IF new
         THEN IF cmd_count = 1 THEN << head \o a.commands[1] >>
              ELSE << head \o IntStr(cmd_count) \o <<" ","c","o","m","m","a","n","d","s"," ","(">>
                           \o IntStr(exec_count) \o <<" ","e","x","e","c","u","t","e","d",")",":">> >>
                   \o [i \in 1..Min(3, Len(a.commands)) |->
                          <<" "," "," "," "," "," ","-"," ">> \o Slice(a.commands[i], 60) \o <<".",".",".">>]
         ELSE << head \o (IF "command" \in DOMAIN a THEN a.command ELSE <<"N","/","A">>) >>)
        \o (IF result # <<>>
            THEN << <<" "," "," "," "," "," ","R","e","s","u","l","t",":"," ">> \o Slice(result, 100) \o <<".",".",".">> >>
            ELSE <<>>)
        \o (IF reason # <<>>
            THEN << <<" "," "," "," "," "," ","R","e","a","s","o","n","i","n","g",":"," ">> \o Slice(reason, 150) \o <<".",".",".">> >>
            ELSE <<>>)

\* get_context(max_actions)
get_context(d, n) ==
    LET actions == last_slice(d.actions, n)
    IN  Join(<<"\n">>,
             << <<"G","o","a","l",":"," ">> \o text_of(d.goal),
                <<"S","t","a","t","u","s",":"," ">> \o text_of(d.status),
                <<"T","o","t","a","l"," ","i","t","e","r","a","t","i","o","n","s"," ","s","o"," ","f","a","r",":"," ">> \o IntStr(d.iterations),
                <<>> >>
             \o (IF actions # <<>>
                 THEN << <<"R","e","c","e","n","t"," ","a","c","t","i","o","n","s"," ","(","l","a","s","t"," ">> \o IntStr(Len(actions)) \o <<")",":">> >>
                      \o Flatten([i \in 1..Len(actions) |-> context_lines(actions[i])])
                 ELSE << <<"N","o"," ","a","c","t","i","o","n","s"," ","t","a","k","e","n"," ","y","e","t",".">> >>))

(***************************************************************************)
(* Inputs: what the backend may answer, and what may already be on disk.   *)
(***************************************************************************)
c_wm_a == <<"w","m","c","t","r","l"," ","-","a"," ","F","i","l","e","s">>
c_wm_c == <<"w","m","c","t","r","l"," ","-","c"," ","F","i","l","e","s">>
c_wm_t == <<"w","m","c","t","r","l"," ","-","a"," ","T","e","r","m">>
c_xclick == <<"x","d","o","t","o","o","l"," ","c","l","i","c","k"," ","1">>
c_ykey == <<"y","d","o","t","o","o","l"," ","k","e","y"," ","e","n","t","e","r">>
c_cli_c == <<"c","l","i","c","l","i","c","k"," ","c",":","1","0",",","1","0">>
c_cli_k == <<"c","l","i","c","l","i","c","k"," ","k","p",":","r","e","t","u","r","n">>
c_sudo == <<"s","u","d","o"," ","r","e","b","o","o","t">>
c_semi == <<"w","m","c","t","r","l"," ","-","a"," ","F","i","l","e","s",";"," ","r","e","b","o","o","t">>
c_and == <<"x","d","o","t","o","o","l"," ","c","l","i","c","k"," ","1"," ","&","&"," ","x","d","o","t","o","o","l"," ","c","l","i","c","k"," ","1">>
c_move_click == <<"y","d","o","t","o","o","l"," ","m","o","u","s","e","m","o","v","e"," ","-","a"," ","5"," ","5"," ","&","&"," ","y","d","o","t","o","o","l"," ","c","l","i","c","k"," ","0","x","C","0">>
\* the move-then-click pair with a third step chained on
c_move_click_more == <<"y","d","o","t","o","o","l"," ","m","o","u","s","e","m","o","v","e"," ","-","a"," ","5"," ","5"," ","&","&"," ","y","d","o","t","o","o","l"," ","c","l","i","c","k"," ","0","x","C","0"," ","&","&"," ","y","d","o","t","o","o","l"," ","k","e","y"," ","e","n","t","e","r">>
\* commands with an allowed Linux prefix and one forbidden substring each
c_f_rm == <<"w","m","c","t","r","l"," ","-","a"," ","x"," ","r","m"," ","y">>
c_f_sudo == <<"w","m","c","t","r","l"," ","-","a"," ","s","u","d","o">>
c_f_curl == <<"w","m","c","t","r","l"," ","-","a"," ","x"," ","c","u","r","l"," ","y">>
c_f_wget == <<"w","m","c","t","r","l"," ","-","a"," ","x"," ","w","g","e","t"," ","y">>
c_f_kill == <<"w","m","c","t","r","l"," ","-","a"," ","x"," ","k","i","l","l"," ","1">>
c_f_pkill == <<"w","m","c","t","r","l"," ","-","a"," ","p","k","i","l","l">>
c_f_append == <<"w","m","c","t","r","l"," ","-","l"," ",">",">"," ","o","u","t">>
c_f_subst == <<"w","m","c","t","r","l"," ","-","a"," ","$","(","i","d",")">>
c_f_eval == <<"w","m","c","t","r","l"," ","-","a"," ","x"," ","e","v","a","l"," ","y">>
c_f_or == <<"w","m","c","t","r","l"," ","-","a"," ","x"," ","|","|"," ","w","m","c","t","r","l"," ","-","l">>
c_f_tick == <<"w","m","c","t","r","l"," ","-","a"," ">> \o <<BackQuote>> \o <<"i","d">> \o <<BackQuote>>
\* the same on macOS
c_f_cli_sudo == <<"c","l","i","c","l","i","c","k"," ","c",":","1",",","1"," ","s","u","d","o">>
c_f_cli_semi == <<"o","s","a","s","c","r","i","p","t"," ","-","e"," ","b","e","e","p",";"," ","i","d">>

\* three commands, valid with either Linux input tool
r_wm3 == <<"#","#","#","O","B","S","\n","A"," ","d","e","s","k","t","o","p","\n","#","#","#","T","H","I","N","K","\n","f","o","c","u","s","\n","#","#","#","C","M","D","\n","w","m","c","t","r","l"," ","-","a"," ","F","i","l","e","s","\n","w","m","c","t","r","l"," ","-","c"," ","F","i","l","e","s","\n","w","m","c","t","r","l"," ","-","a"," ","T","e","r","m","\n">>
\* two commands, valid on macOS
r_cli2 == <<"#","#","#","O","B","S","\n","A"," ","d","e","s","k","t","o","p","\n","#","#","#","T","H","I","N","K","\n","c","l","i","c","k","\n","#","#","#","C","M","D","\n","c","l","i","c","l","i","c","k"," ","c",":","1","0",",","1","0","\n","c","l","i","c","l","i","c","k"," ","k","p",":","r","e","t","u","r","n","\n">>
\* the second command is invalid everywhere
r_mixed == <<"#","#","#","O","B","S","\n","A"," ","p","r","o","m","p","t","\n","#","#","#","T","H","I","N","K","\n","r","e","b","o","o","t","\n","#","#","#","C","M","D","\n","w","m","c","t","r","l"," ","-","a"," ","F","i","l","e","s","\n","s","u","d","o"," ","r","e","b","o","o","t","\n">>
\* the marker at the start of the observation, with a command no platform allows
r_goal == <<"#","#","#","O","B","S","\n","G","O","A","L"," ","A","C","H","I","E","V","E","D",":"," ","d","o","n","e","\n","#","#","#","T","H","I","N","K","\n","f","i","n","i","s","h","e","d","\n","#","#","#","C","M","D","\n","s","u","d","o"," ","r","e","b","o","o","t","\n">>
\* the marker in lower case and no command section
r_goal_bare == <<"#","#","#","O","B","S","\n","g","o","a","l"," ","a","c","h","i","e","v","e","d","\n">>
\* the marker later in the observation
r_late == <<"#","#","#","O","B","S","\n","N","o","t"," ","y","e","t",":"," ","G","O","A","L"," ","A","C","H","I","E","V","E","D"," ","i","s"," ","f","a","r","\n","#","#","#","T","H","I","N","K","\n","g","o"," ","o","n","\n","#","#","#","C","M","D","\n","w","m","c","t","r","l"," ","-","a"," ","F","i","l","e","s","\n">>
\* no section markers at all
r_plain == <<"I"," ","c","a","n","n","o","t"," ","h","e","l","p">>

\* no section markers, only a command the Linux validators would accept
r_bare_cmd == <<"w","m","c","t","r","l"," ","-","a"," ","F","i","l","e","s","\n">>
\* the empty response
r_empty == <<>>

Responses ==
    {r_wm3, r_cli2, r_mixed, r_goal, r_goal_bare, r_late, r_plain, r_bare_cmd,
     r_empty}

Goals == {"open files", "close files"}

\* a command the validator accepts in the given environment
KnownGood(p, tool) ==
    IF p = MACOS THEN c_cli_c ELSE IF tool = "ydotool" THEN c_ykey ELSE c_xclick

\* the ledger an earlier run with --max-iter 1 leaves after one executed command
PriorInProgress(p, tool) ==
    add_action(init_history("open files", 0), 1, <<"A"," ","d","e","s","k","t","o","p">>, <<"c","l","i","c","k">>,
               <<KnownGood(p, tool)>>, <<<<KnownGood(p, tool), TRUE, <<"O","K">> >> >>, 1)

\* the ledger an earlier run leaves after signalling the goal in iteration 1
PriorCompleted(p, tool) ==
    mark_completed(
        add_action(init_history("open files", 0), 1, <<"G","O","A","L"," ","A","C","H","I","E","V","E","D">>, <<"d","o","n","e">>,
                   <<KnownGood(p, tool)>>,
                   <<<<KnownGood(p, tool), TRUE, <<"G","o","a","l"," ","c","o","m","p","l","e","t","e","d">> >> >>, 1), 2)

\* action_history.json when the process starts
PriorFiles(p, tool) ==
    {NoFile, save(NoFile, PriorInProgress(p, tool)),
     save(NoFile, PriorCompleted(p, tool))}

\* the marker main() looks for
GoalMarker == <<"G","O","A","L"," ","A","C","H","I","E","V","E","D">>

\* "GOAL ACHIEVED" in observation.upper()
goal_signalled(obs) == Contains(Upper(obs), GoalMarker)

(***************************************************************************)
(* main(): from ActionHistory(args.goal, reset=args.reset) to the exit.    *)
(***************************************************************************)
Init ==
    /\ pc = "start"
    /\ \E e \in Environments \cup UnsupportedEnvironments :
          plat = e[1] /\ input_tool = e[2]
    /\ goal \in Goals
    /\ reset \in BOOLEAN
    /\ max_iter \in 0..MaxIter
    /\ file \in PriorFiles(plat, input_tool)
    /\ data = NoData
    /\ clock = 3
    /\ iteration = 0
    /\ response = <<>>
    /\ observation = <<>>
    /\ reasoning = <<>>
    /\ commands = <<>>
    /\ validation = <<>>
    /\ results = <<>>
    /\ ran = <<>>
    /\ calls = 0
    /\ appended = 0
    /\ before = <<>>
    /\ outcome = "Running"
    /\ exit_code = NoExit
    /\ section = <<>>
    /\ max_actions = 0
    /\ context = <<>>

\* mutant of history_init: a changed goal also reopens the session
history_init_reopens(f, g, rst, now) ==
    IF rst \/ f = NoFile THEN init_history(g, now)
    ELSE IF load(f).goal # g
    THEN [load(f) EXCEPT !.goal = g, !.status = "in_progress"]
    ELSE load(f)

\* ActionHistory.__init__
history_init(f, g, rst, now) ==
    IF rst \/ f = NoFile THEN init_history(g, now)
    ELSE IF load(f).goal # g THEN [load(f) EXCEPT !.goal = g]
    ELSE load(f)

\* the file after ActionHistory.__init__: _init_history and the goal
\* reconciliation call _save, a plain load writes nothing
history_init_file(f, g, rst, now) ==
    IF rst \/ f = NoFile \/ load(f).goal # g
    THEN save(f, history_init(f, g, rst, now))
    ELSE f

\* main() stops before the loop with sys.exit(1): the platform is unknown, a
\* dependency is missing (on Linux, also when no input tool is found) or
\* the backend cannot be built; what is installed is the environment's choice
PreflightFails ==
    /\ pc = "start"
    /\ outcome' = "Unsupported_environment"
    /\ exit_code' = <<1>>
    /\ pc' = "exit"
    /\ UNCHANGED harness_vars
    /\ UNCHANGED <<plat, input_tool, goal, reset, max_iter, file, data, clock,
                   iteration, response, observation, reasoning, commands,
                   validation, results, ran, calls, appended, before>>

\* --check-deps with every dependency installed: sys.exit(0)
CheckDepsOnly ==
    /\ pc = "start"
    /\ <<plat, input_tool>> \in Environments
    /\ outcome' = "Dependencies_checked"
    /\ exit_code' = <<0>>
    /\ pc' = "exit"
    /\ UNCHANGED harness_vars
    /\ UNCHANGED <<plat, input_tool, goal, reset, max_iter, file, data, clock,
                   iteration, response, observation, reasoning, commands,
                   validation, results, ran, calls, appended, before>>

\* history = ActionHistory(args.goal, reset=args.reset)
Start ==
    /\ pc = "start"
    /\ <<plat, input_tool>> \in Environments
    /\ data' = <<history_init(file, goal, reset, clock)>>
    /\ file' = history_init_file(file, goal, reset, clock)
    /\ clock' = IF reset \/ file = NoFile THEN clock + 1 ELSE clock
    /\ pc' = "loop"
    /\ UNCHANGED harness_vars
    /\ UNCHANGED <<before, plat, input_tool, goal, reset, max_iter, iteration, response,
                   observation, reasoning, commands, validation, results, ran,
                   calls, appended, outcome, exit_code>>

\* for iteration in range(1, args.max_iter + 1): the next value
NextIteration ==
    /\ pc = "loop"
    /\ iteration < max_iter
    /\ iteration' = iteration + 1
    /\ ran' = <<>>
    /\ before' = <<data, file>>
    /\ pc' = "call"
    /\ UNCHANGED harness_vars
    /\ UNCHANGED <<plat, input_tool, goal, reset, max_iter, file, data, clock,
                   response, observation, reasoning, commands, validation,
                   results, calls, appended, outcome, exit_code>>

\* mutant of Exhausted: the range ends one iteration early
Exhausted_one_short ==
    /\ pc = "loop"
    /\ iteration + 1 >= max_iter
    /\ outcome' = "MaxIterationsReached"
    /\ exit_code' = <<0>>
    /\ pc' = "exit"
    /\ UNCHANGED harness_vars
    /\ UNCHANGED <<before, plat, input_tool, goal, reset, max_iter, file, data,
                   clock, iteration, response, observation, reasoning, commands,
                   validation, results, ran, calls, appended>>

\* mutant of Exhausted: with the range exhausted main() waits and never
\* returns
Exhausted_hangs ==
    /\ pc = "loop"
    /\ iteration >= max_iter
    /\ UNCHANGED vars

\* the for loop's else branch: the range is exhausted, main() returns
Exhausted ==
    /\ pc = "loop"
    /\ iteration >= max_iter
    /\ outcome' = "MaxIterationsReached"
    /\ exit_code' = <<0>>
    /\ pc' = "exit"
    /\ UNCHANGED harness_vars
    /\ UNCHANGED <<before, plat, input_tool, goal, reset, max_iter, file, data, clock,
                   iteration, response, observation, reasoning, commands,
                   validation, results, ran, calls, appended>>

\* response = backend.call(prompt, SCREENSHOT) returns
BackendReturns ==
    /\ pc = "call"
    /\ \E r \in Responses : response' = r
    /\ calls' = calls + 1
    /\ pc' = "parse"
    /\ UNCHANGED harness_vars
    /\ UNCHANGED <<before, plat, input_tool, goal, reset, max_iter, file, data, clock,
                   iteration, observation, reasoning, commands, validation,
                   results, ran, appended, outcome, exit_code>>

\* mutant of BackendFails: the failure is recorded as an Action before exit
BackendFails_records_action ==
    /\ pc = "call"
    /\ calls' = calls + 1
    /\ data' = <<add_action(data[1], iteration, <<>>, <<>>, <<>>, <<>>, clock)>>
    /\ file' = save(file, data'[1])
    /\ clock' = clock + 1
    /\ outcome' = "Aborted_backend_error"
    /\ exit_code' = <<1>>
    /\ pc' = "exit"
    /\ UNCHANGED harness_vars
    /\ UNCHANGED <<before, plat, input_tool, goal, reset, max_iter, iteration,
                   response, observation, reasoning, commands, validation,
                   results, ran, appended>>

\* mutant of BackendFails: the failed call is attempted once more
BackendFails_retries_once ==
    /\ pc = "call"
    /\ calls' = calls + 1
    /\ IF calls < iteration
       THEN pc' = "call" /\ UNCHANGED <<outcome, exit_code>>
       ELSE /\ outcome' = "Aborted_backend_error"
            /\ exit_code' = <<1>>
            /\ pc' = "exit"
    /\ UNCHANGED harness_vars
    /\ UNCHANGED <<before, plat, input_tool, goal, reset, max_iter, file, data, clock,
                   iteration, response, observation, reasoning, commands,
                   validation, results, ran, appended>>

\* backend.call raises: sys.exit(1)
BackendFails ==
    /\ pc = "call"
    /\ calls' = calls + 1
    /\ outcome' = "Aborted_backend_error"
    /\ exit_code' = <<1>>
    /\ pc' = "exit"
    /\ UNCHANGED harness_vars
    /\ UNCHANGED <<before, plat, input_tool, goal, reset, max_iter, file, data, clock,
                   iteration, response, observation, reasoning, commands,
                   validation, results, ran, appended>>

\* observation, reasoning, commands = extract_blocks(response)
ExtractBlocks ==
    /\ pc = "parse"
    /\ LET blocks == extract_blocks(response)
       IN  /\ observation' = blocks[1]
           /\ reasoning' = blocks[2]
           /\ commands' = blocks[3]
    /\ pc' = "check"
    /\ UNCHANGED harness_vars
    /\ UNCHANGED <<before, plat, input_tool, goal, reset, max_iter, file, data, clock,
                   iteration, response, validation, results, ran, calls,
                   appended, outcome, exit_code>>

\* the results list main() makes up for the goal-achieved Action
goal_results(cmds) ==
    << <<IF cmds # <<>> THEN cmds[1] ELSE <<"g","o","a","l">>, TRUE, <<"G","o","a","l"," ","c","o","m","p","l","e","t","e","d">> >> >>

\* if "GOAL ACHIEVED" in observation.upper(): history.add_action(...)
GoalAchieved ==
    /\ pc = "check"
    /\ goal_signalled(observation)
    /\ data' = <<add_action(data[1], iteration, observation, reasoning,
                            commands, goal_results(commands), clock)>>
    /\ file' = save(file, data'[1])
    /\ clock' = clock + 1
    /\ appended' = appended + 1
    /\ pc' = "mark"
    /\ UNCHANGED harness_vars
    /\ UNCHANGED <<before, plat, input_tool, goal, reset, max_iter, iteration, response,
                   observation, reasoning, commands, validation, results, ran,
                   calls, outcome, exit_code>>

\* history.mark_completed(); break; main() returns
MarkCompleted ==
    /\ pc = "mark"
    /\ data' = <<mark_completed(data[1], clock)>>
    /\ file' = save(file, data'[1])
    /\ clock' = clock + 1
    /\ outcome' = "GoalAchieved"
    /\ exit_code' = <<0>>
    /\ pc' = "exit"
    /\ UNCHANGED harness_vars
    /\ UNCHANGED <<before, plat, input_tool, goal, reset, max_iter, iteration, response,
                   observation, reasoning, commands, validation, results, ran,
                   calls, appended>>

\* the results list main() makes up for the rejected Action
rejected_results(cmds, v) ==
    << <<IF v[3] >= 0 THEN cmds[v[3] + 1] ELSE <<"N","/","A">>, FALSE,
         <<"R","E","J","E","C","T","E","D",":"," ">> \o v[2]>> >>

\* mutant of ValidateRejects: the rejection ends the process with code 0
ValidateRejects_exits_zero ==
    /\ pc = "check"
    /\ ~goal_signalled(observation)
    /\ LET v == validate_commands(commands, plat, input_tool)
       IN  /\ ~v[1]
           /\ validation' = v
           /\ data' = <<add_action(data[1], iteration, observation, reasoning,
                                   commands, rejected_results(commands, v),
                                   clock)>>
    /\ file' = save(file, data'[1])
    /\ clock' = clock + 1
    /\ appended' = appended + 1
    /\ outcome' = "Aborted_invalid_command"
    /\ exit_code' = <<0>>
    /\ pc' = "exit"
    /\ UNCHANGED harness_vars
    /\ UNCHANGED <<before, plat, input_tool, goal, reset, max_iter, iteration, response,
                   observation, reasoning, commands, results, ran, calls>>

\* validate_commands rejects the batch: add_action(...), sys.exit(1)
ValidateRejects ==
    /\ pc = "check"
    /\ ~goal_signalled(observation)
    /\ LET v == validate_commands(commands, plat, input_tool)
       IN  /\ ~v[1]
           /\ validation' = v
           /\ data' = <<add_action(data[1], iteration, observation, reasoning,
                                   commands, rejected_results(commands, v),
                                   clock)>>
    /\ file' = save(file, data'[1])
    /\ clock' = clock + 1
    /\ appended' = appended + 1
    /\ outcome' = "Aborted_invalid_command"
    /\ exit_code' = <<1>>
    /\ pc' = "exit"
    /\ UNCHANGED harness_vars
    /\ UNCHANGED <<before, plat, input_tool, goal, reset, max_iter, iteration, response,
                   observation, reasoning, commands, results, ran, calls>>

\* validate_commands accepts the batch: execute_commands(commands) is entered
ValidateAccepts ==
    /\ pc = "check"
    /\ ~goal_signalled(observation)
    /\ LET v == validate_commands(commands, plat, input_tool)
       IN  /\ v[1]
           /\ validation' = v
    /\ results' = <<>>
    /\ pc' = "execute"
    /\ UNCHANGED harness_vars
    /\ UNCHANGED <<before, plat, input_tool, goal, reset, max_iter, file, data, clock,
                   iteration, response, observation, reasoning, commands, ran,
                   calls, appended, outcome, exit_code>>

\* one pass of execute_commands' for loop: run commands[len(results)]
ExecuteCommand ==
    /\ pc = "execute"
    /\ ~execute_done(commands, results)
    /\ \E b \in Behaviours :
          LET cmd == commands[Len(results) + 1]
              r == execute_command(cmd, b)
          IN  /\ ran' = Append(ran, cmd)
              /\ results' = Append(results, <<cmd, r[1], r[2]>>)
    /\ UNCHANGED harness_vars
    /\ UNCHANGED <<before, pc, plat, input_tool, goal, reset, max_iter, file, data,
                   clock, iteration, response, observation, reasoning, commands,
                   validation, calls, appended, outcome, exit_code>>

\* execute_commands returns results
ExecuteReturns ==
    /\ pc = "execute"
    /\ execute_done(commands, results)
    /\ pc' = "append"
    /\ UNCHANGED harness_vars
    /\ UNCHANGED <<before, plat, input_tool, goal, reset, max_iter, file, data, clock,
                   iteration, response, observation, reasoning, commands,
                   validation, results, ran, calls, appended, outcome,
                   exit_code>>

\* mutant of AppendAction: a batch with a failed command ends the run
AppendAction_fatal_failure ==
    /\ pc = "append"
    /\ data' = <<add_action(data[1], iteration, observation, reasoning,
                            commands, results, clock)>>
    /\ file' = save(file, data'[1])
    /\ clock' = clock + 1
    /\ appended' = appended + 1
    /\ IF all_succeeded(results)
       THEN pc' = "loop" /\ UNCHANGED <<outcome, exit_code>>
       ELSE /\ pc' = "exit"
            /\ outcome' = "Aborted_command_failed"
            /\ exit_code' = <<1>>
    /\ UNCHANGED harness_vars
    /\ UNCHANGED <<before, plat, input_tool, goal, reset, max_iter, iteration,
                   response, observation, reasoning, commands, validation,
                   results, ran, calls>>

\* history.add_action(iteration, observation, reasoning, commands, results)
AppendAction ==
    /\ pc = "append"
    /\ data' = <<add_action(data[1], iteration, observation, reasoning,
                            commands, results, clock)>>
    /\ file' = save(file, data'[1])
    /\ clock' = clock + 1
    /\ appended' = appended + 1
    /\ pc' = "loop"
    /\ UNCHANGED harness_vars
    /\ UNCHANGED <<before, plat, input_tool, goal, reset, max_iter, iteration, response,
                   observation, reasoning, commands, validation, results, ran,
                   calls, outcome, exit_code>>

Next ==
    \/ PreflightFails
    \/ CheckDepsOnly
    \/ Start
    \/ NextIteration
    \/ Exhausted
    \/ BackendReturns
    \/ BackendFails
    \/ ExtractBlocks
    \/ GoalAchieved
    \/ MarkCompleted
    \/ ValidateRejects
    \/ ValidateAccepts
    \/ ExecuteCommand
    \/ ExecuteReturns
    \/ AppendAction

Spec == Init /\ [][Next]_vars

\* The process is scheduled, and every call out of it returns: urlopen and
\* subprocess.run are given timeouts.  Weak fairness of each step of main().
\* ExtractBlocks is enabled exactly when pc = "parse", and one of
\* GoalAchieved, ValidateRejects and ValidateAccepts exactly when
\* pc = "check": their weak fairness is written with that enabling condition.
Fairness ==
    /\ WF_vars(PreflightFails \/ CheckDepsOnly \/ Start)
    /\ WF_vars(NextIteration \/ Exhausted)
    /\ WF_vars(BackendReturns \/ BackendFails)
    /\ ([]<>(pc # "parse") \/ []<><<ExtractBlocks>>_vars)
    /\ ([]<>(pc # "check")
          \/ []<><<GoalAchieved \/ ValidateRejects \/ ValidateAccepts>>_vars)
    /\ WF_vars(MarkCompleted)
    /\ WF_vars(ExecuteCommand \/ ExecuteReturns)
    /\ WF_vars(AppendAction)

\* the run in which every step that can be taken is taken
SpecLive == Init /\ [][Next]_vars /\ Fairness

(***************************************************************************)
(* The same run with the process killed from outside at any point.  _save  *)
(* opens the file for writing, which empties it, and then writes the      *)
(* document piece by piece: a kill in between leaves no text or a proper   *)
(* prefix of the text.                                                     *)
(***************************************************************************)
\* the file open(path, "w") leaves when nothing has been written yet
EmptyText == [t |-> "empty_text", v |-> <<>>]

\* a file holding a proper, non-empty prefix of the text of document j
PartialText(j) == [t |-> "partial_text", v |-> j]

\* json.load(f) returns (it raises JSONDecodeError on a document cut short)
loadable(f) == f # NoFile /\ f[1].t = "object"

\* <<self.data>> as the _save call of the next step of main() is given it,
\* <<>> when the next step does not save
being_saved ==
    IF pc = "start"
    THEN IF /\ <<plat, input_tool>> \in Environments
            /\ (reset \/ file = NoFile \/ load(file).goal # goal)
         THEN <<history_init(file, goal, reset, clock)>>
         ELSE <<>>
    ELSE IF pc = "check"
    THEN IF goal_signalled(observation)
         THEN <<add_action(data[1], iteration, observation, reasoning,
                           commands, goal_results(commands), clock)>>
         ELSE IF ~validate_commands(commands, plat, input_tool)[1]
         THEN <<add_action(data[1], iteration, observation, reasoning, commands,
                           rejected_results(commands,
                               validate_commands(commands, plat, input_tool)),
                           clock)>>
         ELSE <<>>
    ELSE IF pc = "mark" THEN <<mark_completed(data[1], clock)>>
    ELSE IF pc = "append"
    THEN <<add_action(data[1], iteration, observation, reasoning, commands,
                      results, clock)>>
    ELSE <<>>

\* the process is killed between two steps of main()
Kill ==
    /\ pc \notin {"exit", "killed"}
    /\ pc' = "killed"
    /\ outcome' = "Killed"
    /\ UNCHANGED harness_vars
    /\ UNCHANGED <<plat, input_tool, goal, reset, max_iter, file, data, clock,
                   iteration, response, observation, reasoning, commands,
                   validation, results, ran, calls, appended, before,
                   exit_code>>

\* the process is killed inside _save, after open() and before the last
\* piece of the document is written
KillDuringSave ==
    /\ pc \notin {"exit", "killed"}
    /\ being_saved # <<>>
    /\ data' = being_saved
    /\ file' \in {<<EmptyText>>, <<PartialText(json_dump(being_saved[1]))>>}
    /\ pc' = "killed"
    /\ outcome' = "Killed"
    /\ UNCHANGED harness_vars
    /\ UNCHANGED <<plat, input_tool, goal, reset, max_iter, clock, iteration,
                   response, observation, reasoning, commands, validation,
                   results, ran, calls, appended, before, exit_code>>

NextKill ==
    \/ Next
    \/ Kill
    \/ KillDuringSave

SpecKill == Init /\ [][NextKill]_vars

(***************************************************************************)
(* validate_commands on its own: the batch, the platform and the input     *)
(* tool are drawn from bounded sets and the function is applied once.      *)
(***************************************************************************)
CommandPool ==
    {c_wm_a, c_xclick, c_ykey, c_cli_c, c_sudo, c_semi, c_and, c_move_click,
     c_move_click_more, c_f_rm, c_f_sudo, c_f_curl, c_f_wget, c_f_kill,
     c_f_pkill, c_f_append, c_f_subst, c_f_eval, c_f_or, c_f_tick,
     c_f_cli_sudo, c_f_cli_semi}

RECURSIVE BatchesOfLen(_)
BatchesOfLen(n) ==
    IF n = 0 THEN {<<>>}
    ELSE {Append(b, c) : b \in BatchesOfLen(n - 1), c \in CommandPool}

\* every list of at most MaxBatch commands of the pool, the empty list included
Batches == UNION {BatchesOfLen(n) : n \in 0..MaxBatch}

InitValidate ==
    /\ pc = "fn_validate"
    /\ plat \in {MACOS, LINUX, UNKNOWN}
    /\ input_tool \in {None, "ydotool", "xdotool"}
    /\ commands \in Batches
    /\ goal = "open files"
    /\ reset = FALSE
    /\ max_iter = 0
    /\ file = NoFile
    /\ data = NoData
    /\ clock = 0
    /\ iteration = 0
    /\ response = <<>>
    /\ observation = <<>>
    /\ reasoning = <<>>
    /\ validation = <<>>
    /\ results = <<>>
    /\ ran = <<>>
    /\ calls = 0
    /\ appended = 0
    /\ before = <<>>
    /\ outcome = "Running"
    /\ exit_code = NoExit
    /\ section = <<>>
    /\ max_actions = 0
    /\ context = <<>>

\* validation = validate_commands(commands, plat, input_tool)
CallValidate ==
    /\ pc = "fn_validate"
    /\ validation' = validate_commands(commands, plat, input_tool)
    /\ pc' = "fn_done"
    /\ UNCHANGED harness_vars
    /\ UNCHANGED <<plat, input_tool, goal, reset, max_iter, file, data, clock,
                   iteration, response, observation, reasoning, commands,
                   results, ran, calls, appended, before, outcome, exit_code>>

NextValidate == CallValidate

SpecValidate == InitValidate /\ [][NextValidate]_vars

(***************************************************************************)
(* extract_blocks on its own: a response is written around a command       *)
(* section of bounded length and the function is applied once.             *)
(***************************************************************************)
\* longest command section, in lines
MaxLines == 7

\* a command, a command with blanks around it, and a blank line
LinePool == {<<"w","m","c","t","r","l"," ","-","l">>, <<" ","x","d","o","t","o","o","l"," ","k","e","y"," ","a"," ">>, <<" ">>}

RECURSIVE SectionsOfLen(_)
SectionsOfLen(n) ==
    IF n = 0 THEN {<<>>}
    ELSE {Append(s, l) : s \in SectionsOfLen(n - 1), l \in LinePool}

\* every command section of at most MaxLines lines of the pool
Sections == UNION {SectionsOfLen(n) : n \in 0..MaxLines}

\* the response with the commands last, and with the commands first
Layouts == {"cmd_last", "cmd_first"}

\* the text of a response whose command section holds the given lines
response_text(layout, lines) ==
    IF layout = "cmd_last"
    THEN <<"#","#","#","O","B","S","\n","A","\n","#","#","#","T","H","I","N","K","\n","B","\n","#","#","#","C","M","D","\n">> \o Join(<<"\n">>, lines)
    ELSE <<"#","#","#","C","M","D","\n">> \o Join(<<"\n">>, lines)
             \o <<"\n","#","#","#","O","B","S","\n","A","\n","#","#","#","T","H","I","N","K","\n","B","\n">>

InitExtract ==
    /\ pc = "fn_extract"
    /\ section \in Sections
    /\ \E layout \in Layouts : response = response_text(layout, section)
    /\ plat = LINUX
    /\ input_tool = "xdotool"
    /\ goal = "open files"
    /\ reset = FALSE
    /\ max_iter = 0
    /\ file = NoFile
    /\ data = NoData
    /\ clock = 0
    /\ iteration = 0
    /\ observation = <<>>
    /\ reasoning = <<>>
    /\ commands = <<>>
    /\ validation = <<>>
    /\ results = <<>>
    /\ ran = <<>>
    /\ calls = 0
    /\ appended = 0
    /\ before = <<>>
    /\ outcome = "Running"
    /\ exit_code = NoExit
    /\ max_actions = 0
    /\ context = <<>>

\* observation, reasoning, commands = extract_blocks(response)
CallExtract ==
    /\ pc = "fn_extract"
    /\ LET blocks == extract_blocks(response)
       IN  /\ observation' = blocks[1]
           /\ reasoning' = blocks[2]
           /\ commands' = blocks[3]
    /\ pc' = "fn_done"
    /\ UNCHANGED harness_vars
    /\ UNCHANGED <<plat, input_tool, goal, reset, max_iter, file, data, clock,
                   iteration, response, validation, results, ran, calls,
                   appended, before, outcome, exit_code>>

NextExtract == CallExtract

SpecExtract == InitExtract /\ [][NextExtract]_vars

(***************************************************************************)
(* get_context on its own: a ledger of bounded length and a window size    *)
(* are drawn and the function is applied once.                             *)
(***************************************************************************)
\* longest ledger, in Actions
MaxLedger == 3
\* largest max_actions tried
MaxWindow == 3

\* one command; four commands of which two ran; a rejected empty batch; an
\* Action in the older single-command format
ActionKinds == {"one", "four", "none", "old"}

\* the session after an Action of the given kind is added as iteration it
with_action(d, kind, it) ==
    IF kind = "one"
    THEN add_action(d, it, <<"A"," ","d","e","s","k","t","o","p">>, <<"f","o","c","u","s">>, <<c_wm_a>>,
                    << <<c_wm_a, TRUE, <<"O","K">> >> >>, it)
    ELSE IF kind = "four"
    THEN add_action(d, it, <<"A"," ","d","e","s","k","t","o","p">>, <<>>, <<c_wm_a, c_wm_c, c_wm_t, c_xclick>>,
                    << <<c_wm_a, TRUE, <<"O","K">> >>,
                       <<c_wm_c, FALSE, <<"F","A","I","L","E","D",":"," ","n","o"," ","w","i","n","d","o","w">> >> >>, it)
    ELSE IF kind = "none"
    THEN add_action(d, it, <<>>, <<>>, <<>>,
                    << <<<<"N","/","A">>, FALSE, <<"R","E","J","E","C","T","E","D",":"," ","N","o"," ","c","o","m","m","a","n","d","s"," ","p","r","o","v","i","d","e","d">> >> >>, it)
    ELSE [d EXCEPT !.iterations = it,
                   !.actions = Append(@, [iteration |-> it, command |-> c_xclick,
                                          result |-> <<"O","K">>, reasoning |-> <<"c","l","i","c","k">>])]

RECURSIVE LedgersOfLen(_)
\* the sessions holding n Actions, of iterations 1..n
LedgersOfLen(n) ==
    IF n = 0 THEN {init_history("open files", 0)}
    ELSE {with_action(d, kind, n) : d \in LedgersOfLen(n - 1), kind \in ActionKinds}

Ledgers == UNION {LedgersOfLen(n) : n \in 0..MaxLedger}

InitContext ==
    /\ pc = "fn_context"
    /\ \E d \in Ledgers : data = <<d>>
    /\ max_actions \in 0..MaxWindow
    /\ context = <<>>
    /\ section = <<>>
    /\ plat = LINUX
    /\ input_tool = "xdotool"
    /\ goal = "open files"
    /\ reset = FALSE
    /\ max_iter = 0
    /\ file = save(NoFile, data[1])
    /\ clock = 0
    /\ iteration = 0
    /\ response = <<>>
    /\ observation = <<>>
    /\ reasoning = <<>>
    /\ commands = <<>>
    /\ validation = <<>>
    /\ results = <<>>
    /\ ran = <<>>
    /\ calls = 0
    /\ appended = 0
    /\ before = <<>>
    /\ outcome = "Running"
    /\ exit_code = NoExit

\* context = history.get_context(max_actions)
CallGetContext ==
    /\ pc = "fn_context"
    /\ context' = get_context(data[1], max_actions)
    /\ pc' = "fn_done"
    /\ UNCHANGED <<section, max_actions>>
    /\ UNCHANGED <<plat, input_tool, goal, reset, max_iter, file, data, clock,
                   iteration, response, observation, reasoning, commands,
                   validation, results, ran, calls, appended, before, outcome,
                   exit_code>>

NextContext == CallGetContext

SpecContext == InitContext /\ [][NextContext]_vars


(***************************************************************************)
(* Properties.                                                             *)
(***************************************************************************)
\* the actions of a session held as <<session>>
ActionsOf(d) == d[1].actions

\* the Action appended last
LastAction == ActionsOf(data)[Len(ActionsOf(data))]

\* the ledger holds the actions the iteration found, and one more
OneAppended ==
    /\ Len(ActionsOf(data)) = Len(ActionsOf(before[1])) + 1
    /\ SubSeq(ActionsOf(data), 1, Len(ActionsOf(before[1]))) = ActionsOf(before[1])
    /\ LastAction.iteration = iteration

\* some command of the current batch fails validate_command
SomeInvalid ==
    \E i \in 1..Len(commands) :
        ~validate_command(commands[i], plat, input_tool)[1]

\* C1: admission gate.  In every iteration no command is handed to the shell
\* unless validate_commands accepted the whole batch: when the batch is empty
\* or holds an invalid command anywhere, nothing has been executed.
C1_AdmissionGate ==
    /\ (commands = <<>> \/ SomeInvalid) => ran = <<>>
    /\ ran # <<>> => (validation # <<>> /\ validation[1])

\* C1 witness: a batch whose first command is valid and whose second is not
\* was rejected, and nothing ran.
C1_Witness ==
    /\ outcome = "Aborted_invalid_command"
    /\ Len(commands) = 2
    /\ validate_command(commands[1], plat, input_tool)[1]
    /\ ~validate_command(commands[2], plat, input_tool)[1]
    /\ ran = <<>>

\* observation, upper-cased, begins with the marker
MarkerAtStart == StartsWith(Upper(observation), GoalMarker)

\* C2 (as claimed): goal completion is detected exactly when the observation
\* begins with GOAL ACHIEVED, compared case-insensitively: the goal branch is
\* taken only with the marker at the start, and the validation branch only
\* without it.
C2_MarkerAtStartOnly ==
    /\ pc = "mark" => MarkerAtStart
    /\ (pc \in {"execute", "append"} \/ outcome = "Aborted_invalid_command")
           => ~MarkerAtStart

\* C3: when the observation signals goal completion the loop appends exactly
\* one Action for the iteration, marks the session completed (on disk too),
\* stops (no further backend call) and has executed nothing.
C3_GoalAchievedStops ==
    outcome = "GoalAchieved" =>
        /\ pc = "exit"
        /\ data[1].status = "completed"
        /\ file = save(file, data[1])
        /\ OneAppended
        /\ appended = iteration
        /\ calls = iteration
        /\ ran = <<>>

\* C3 witness: the goal was signalled with iterations left, by a response
\* whose commands the validator would reject.
C3_Witness ==
    /\ outcome = "GoalAchieved"
    /\ iteration < max_iter
    /\ commands # <<>>
    /\ ~validate_commands(commands, plat, input_tool)[1]

\* C4: a run that ends without a goal signal, a backend failure or a rejected
\* batch has made exactly max_iter iterations, backend calls and appends, and
\* ends in MaxIterationsReached with exit code 0; the early exits happen only
\* for their own reasons (a failed command is not one).
C4_ExactlyMaxIterations ==
    (pc = "exit" /\ data # NoData) =>
        \/ outcome = "GoalAchieved" /\ goal_signalled(observation)
        \/ outcome = "Aborted_invalid_command"
              /\ ~validate_commands(commands, plat, input_tool)[1]
        \/ outcome = "Aborted_backend_error"
        \/ /\ outcome = "MaxIterationsReached"
           /\ iteration = max_iter
           /\ calls = max_iter
           /\ appended = max_iter
           /\ exit_code = <<0>>

\* C4 witness: the largest max_iter, reached although the last batch failed.
C4_Witness ==
    /\ outcome = "MaxIterationsReached"
    /\ max_iter = MaxIter
    /\ max_iter >= 1
    /\ ~LastAction.all_succeeded

\* C5 (as claimed): a rejected batch leaves one rejected Action whose result
\* carries the validator's message and whose executed count is zero, and the
\* run is aborted.
C5_RejectedAction ==
    outcome = "Aborted_invalid_command" =>
        /\ pc = "exit"
        /\ OneAppended
        /\ Contains(LastAction.result_summary, <<"R","E","J","E","C","T","E","D",":"," ">> \o validation[2])
        /\ ~LastAction.all_succeeded
        /\ LastAction.executed_count = 0

\* C6 (as claimed): every stored Action has executed_count <= commands_count.
C6_ExecutedAtMostCommands ==
    data # NoData =>
        \A i \in 1..Len(ActionsOf(data)) :
            ActionsOf(data)[i].executed_count <= ActionsOf(data)[i].commands_count

\* C7: a backend failure aborts at once: exit code 1, no further backend
\* call, nothing executed, no Action appended for the iteration, and the
\* ledger (in memory and on disk) as the iteration found it.
C7_BackendFailureAborts ==
    outcome = "Aborted_backend_error" =>
        /\ pc = "exit"
        /\ exit_code = <<1>>
        /\ calls = iteration
        /\ ran = <<>>
        /\ appended = iteration - 1
        /\ <<data, file>> = before

\* C7 witness: the backend failed with iterations left and a non-empty ledger.
C7_Witness ==
    /\ outcome = "Aborted_backend_error"
    /\ iteration < max_iter
    /\ ActionsOf(data) # <<>>

\* some command of the executed batch failed
SomeFailed == \E i \in 1..Len(results) : ~results[i][2]

\* C8: a failed or timed-out command is not fatal.  Appending the results of
\* a batch with a failure records all_succeeded = false and leaves the loop
\* running, and with iterations left the loop goes on to the next iteration's
\* backend call.
C8_FailureIsNotFatal ==
    [][ /\ (pc = "append" /\ SomeFailed) =>
              /\ pc' = "loop"
              /\ outcome' = "Running"
              /\ exit_code' = NoExit
              /\ Len(ActionsOf(data')) = Len(ActionsOf(data)) + 1
              /\ ~ActionsOf(data')[Len(ActionsOf(data'))].all_succeeded
        /\ (pc = "loop" /\ SomeFailed /\ iteration < max_iter) =>
              /\ pc' = "call"
              /\ iteration' = iteration + 1
              /\ outcome' = "Running" ]_vars

\* C8 witness: iteration 2 is about to call the backend after a timed-out
\* command in iteration 1.
C8_Witness ==
    /\ pc = "call"
    /\ iteration = 2
    /\ calls = 1
    /\ \E i \in 1..Len(results) : results[i] = <<commands[i], FALSE, <<"T","I","M","E","O","U","T"," ","a","f","t","e","r"," ","3","0","s">> >>
    /\ ~LastAction.all_succeeded

\* C9: execute_commands runs the commands in list order and stops at the
\* first failure: the results are those of a prefix of the batch, every
\* result but the last is a success, exactly that prefix was handed to the
\* shell, and on return the prefix is the whole batch or ends with a failure.
C9_StopAtFirstFailure ==
    pc \in {"execute", "append"} =>
        /\ Len(results) <= Len(commands)
        /\ \A i \in 1..Len(results) : results[i][1] = commands[i]
        /\ \A i \in 1..(Len(results) - 1) : results[i][2]
        /\ ran = SubSeq(commands, 1, Len(results))
        /\ pc = "append" =>
              /\ results # <<>>
              /\ Len(results) = Len(commands) \/ ~results[Len(results)][2]

\* C9 witness: of three commands the second failed and the third never ran.
C9_Witness ==
    /\ pc = "append"
    /\ Len(commands) = 3
    /\ Len(results) = 2
    /\ results[1][2]
    /\ ~results[2][2]
    /\ Len(ran) = 2

\* the substrings the validator forbids whatever the tool: dangerous as first
\* written, and "||"
Forbidden == dangerous_base \o <<OrOr>>

\* cmd starts with an allowed prefix and contains no forbidden substring
PrefixedAndClean(cmd) ==
    /\ \E k \in 1..Len(allowed_prefixes(plat, input_tool)) :
          StartsWith(cmd, allowed_prefixes(plat, input_tool)[k])
    /\ \A k \in 1..Len(Forbidden) : ~Contains(cmd, Forbidden[k])

\* "&&" appears in cmd only as the ydotool move-then-click pattern
AndOnlyAsMoveClick(cmd) ==
    Contains(cmd, AndAnd) => (input_tool = "ydotool" /\ move_click_match(cmd))

\* C10 (as claimed): every batch, the empty one included, whose commands all
\* start with an allowed prefix and contain no forbidden substring is
\* accepted.
C10_CleanBatchAccepted ==
    (pc = "fn_done" /\ \A i \in 1..Len(commands) : PrefixedAndClean(commands[i]))
        => validation[1]

\* C10 (amended): every non-empty batch whose commands all start with an
\* allowed prefix, contain no forbidden substring and contain "&&" only as
\* the ydotool move-then-click pattern is accepted; the empty batch is
\* rejected.
C10_NonEmptyCleanBatchAccepted ==
    pc = "fn_done" =>
        /\ (/\ commands # <<>>
            /\ \A i \in 1..Len(commands) :
                  PrefixedAndClean(commands[i]) /\ AndOnlyAsMoveClick(commands[i]))
              => validation = <<TRUE, <<>>, -1>>
        /\ commands = <<>> => ~validation[1]

\* C10 witness: a batch of two clean commands, one of them the ydotool
\* move-then-click pair, was accepted.
C10_Witness ==
    /\ pc = "fn_done"
    /\ Len(commands) = 2
    /\ \A i \in 1..2 : PrefixedAndClean(commands[i])
    /\ \E i \in 1..2 : Contains(commands[i], AndAnd)
    /\ validation[1]

\* the substrings the claim lists: deletion, privilege escalation, network
\* fetch, process kill, append redirection, command separator, backquote,
\* command substitution, eval and logical OR
ClaimedForbidden ==
    << <<"r","m"," ">>, <<"s","u","d","o">>, <<"c","u","r","l"," ">>, <<"w","g","e","t"," ">>, <<"k","i","l","l"," ">>, <<"p","k","i","l","l">>, <<">",">">>, <<";">>,
       <<BackQuote>>, <<"$","(">>, <<"e","v","a","l"," ">>, <<"|","|">> >>

\* cmd contains the k-th listed substring
HasForbidden(cmd, k) == Contains(cmd, ClaimedForbidden[k])

\* C11: a batch holding a command with a forbidden substring is rejected by
\* validate_commands on every platform and with every input tool, whether or
\* not that command starts with an allowed prefix.
C11_ForbiddenRejected ==
    (pc = "fn_done"
        /\ \E i \in 1..Len(commands) :
              \E k \in 1..Len(ClaimedForbidden) : HasForbidden(commands[i], k))
    => ~validation[1]

\* C11 witness: a batch was rejected only for the backquote in its second
\* command, which starts with an allowed prefix as the first one does.
C11_Witness ==
    /\ pc = "fn_done"
    /\ Len(commands) = 2
    /\ validate_command(commands[1], plat, input_tool)[1]
    /\ has_allowed_prefix(commands[2], plat, input_tool)
    /\ HasForbidden(commands[2], 9)
    /\ \A k \in 1..Len(ClaimedForbidden) : k # 9 => ~HasForbidden(commands[2], k)
    /\ validation = <<FALSE, <<"C","o","m","m","a","n","d"," ","2",":"," ","C","o","m","m","a","n","d"," ","c","o","n","t","a","i","n","s"," ","f","o","r","b","i","d","d","e","n"," ","p","a","t","t","e","r","n"," ","'">>
                                \o <<BackQuote>> \o <<"'">>, 1>>

\* the number of places at which "&&" occurs in cmd
CountAnd(cmd) == Cardinality({i \in 1..Len(cmd) : MatchAt(cmd, AndAnd, i)})

\* cmd is the two-step command: move the pointer, then click, joined by the
\* only "&&" of the text
TwoStepMoveClick(cmd) ==
    /\ CountAnd(cmd) = 1
    /\ move_click_match(cmd)

\* C12 (as claimed): a command containing "&&" is rejected unless the input
\* tool is ydotool and the command is the two-step move-then-click command;
\* the move-then-click text is rejected with every other tool and on every
\* other platform.
C12_AndOnlyForTwoStep ==
    pc = "fn_done" =>
        \A i \in 1..Len(commands) :
            (Contains(commands[i], AndAnd)
                /\ ~(plat = LINUX /\ input_tool = "ydotool"
                        /\ TwoStepMoveClick(commands[i])))
            => ~validation[1]

\* what does hold of "&&": an accepted command containing it was validated on
\* Linux with ydotool and begins with text the move-then-click pattern matches
C12_AndOnlyWhenPatternMatches ==
    pc = "fn_done" =>
        \A i \in 1..Len(commands) :
            (Contains(commands[i], AndAnd) /\ validation[1])
            => (plat = LINUX /\ input_tool = "ydotool"
                    /\ move_click_match(commands[i]))

\* s is a prefix of t
IsPrefix(s, t) == Len(s) <= Len(t) /\ SubSeq(t, 1, Len(s)) = s

\* C13: an Action once appended is never mutated or removed.  Across every
\* step (add_action, mark_completed, and the load of a stored session with
\* goal reconciliation when no reset is asked for) the actions held before,
\* in memory and on disk, are a prefix of the actions held after.
C13_AppendOnly ==
    [][ /\ (data # NoData /\ data' # NoData)
              => IsPrefix(ActionsOf(data), ActionsOf(data'))
        /\ (file # NoFile /\ ~(pc = "start" /\ reset))
              => /\ file' # NoFile
                 /\ IsPrefix(load(file).actions, load(file').actions)
        /\ (pc = "start" /\ file # NoFile /\ ~reset /\ data' # NoData)
              => IsPrefix(load(file).actions, ActionsOf(data')) ]_vars

\* C13 witness: a stored session was loaded under another goal, two Actions
\* were appended and the session was marked completed; the stored Action is
\* still the first of three.
C13_Witness ==
    /\ outcome = "GoalAchieved"
    /\ ~reset
    /\ goal = "close files"
    /\ data[1].goal = "close files"
    /\ appended = 2
    /\ Len(ActionsOf(data)) = 3
    /\ ActionsOf(data)[1] = PriorInProgress(plat, input_tool).actions[1]
    /\ load(file).actions = ActionsOf(data)

\* C14: ledger round trip.  In a session started fresh (every stored Action
\* was appended by this run), after N appends a reload of the persisted file
\* yields iterations = N and the same N Actions, iterations 1..N in order.
C14_RoundTrip ==
    (data # NoData /\ Len(ActionsOf(data)) = appended) =>
        LET r == history_init(file, goal, FALSE, clock)
        IN  /\ r.iterations = appended
            /\ r.actions = ActionsOf(data)
            /\ Len(r.actions) = appended
            /\ \A i \in 1..appended : r.actions[i].iteration = i
            /\ r = data[1]

\* C14 witness: a fresh session after two appends, the second one's Action
\* recording a batch cut short by a failure.
C14_Witness ==
    /\ pc = "exit"
    /\ data # NoData
    /\ data[1].started_at = 3
    /\ appended = 2
    /\ Len(load(file).actions) = 2
    /\ load(file).actions[2].executed_count < load(file).actions[2].commands_count

\* C16: persistence is synchronous.  From the construction of the history
\* on, at every point between two calls on it (so whenever add_action or
\* mark_completed has returned, and when the next backend call begins) the
\* persisted file holds exactly the in-memory session.
C16_SavedOnEveryAppend ==
    data # NoData => (file # NoFile /\ load(file) = data[1])

\* C16 witness: the second iteration's backend call is about to begin and
\* the first iteration's Action is on disk.
C16_Witness ==
    /\ pc = "call"
    /\ iteration = 2
    /\ appended = 1
    /\ file # NoFile
    /\ load(file).iterations = 1
    /\ load(file).actions[Len(load(file).actions)].iteration = 1

\* C15 (as claimed): whenever the process is killed, also in the middle of a
\* save, the persisted ledger is a well-formed session that json.load
\* accepts, and its Actions are a prefix of those of the completed
\* iterations.
C15_LedgerAlwaysLoadable ==
    file # NoFile =>
        /\ loadable(file)
        /\ data # NoData => IsPrefix(load(file).actions, ActionsOf(data))

\* what does hold of a kill: between two steps of main() (so between the
\* execution of a batch and its append, and between the goal Action and
\* mark_completed) the file is the session as last saved
C15_ConsistentBetweenSteps ==
    (pc = "killed" /\ loadable(file) /\ data # NoData) =>
        /\ load(file) = data[1]
        /\ Len(load(file).actions) \in {appended, appended + 1}

\* the terminal states of the loop
EndsWithZero == {"GoalAchieved", "MaxIterationsReached"}
EndsWithOne == {"Aborted_backend_error", "Aborted_invalid_command"}

NoMarkers(text) ==
    ~Contains(text, OBS) /\ ~Contains(text, THINK) /\ ~Contains(text, CMD)

\* C18: a response without section markers is no failure path of its own.
\* It parses to an empty observation, empty reasoning and no commands; the
\* goal is not signalled, the validator rejects the empty batch with "No
\* commands provided", and the run ends in Aborted(invalid_command), exit
\* code 1, with one rejected Action appended and nothing executed.
C18_MissingMarkersRejected ==
    [][ /\ (pc = "parse" /\ NoMarkers(response)) =>
              /\ pc' = "check"
              /\ observation' = <<>>
              /\ reasoning' = <<>>
              /\ commands' = <<>>
        /\ (pc = "check" /\ NoMarkers(response)) =>
              /\ pc' = "exit"
              /\ outcome' = "Aborted_invalid_command"
              /\ exit_code' = <<1>>
              /\ validation' = <<FALSE, <<"N","o"," ","c","o","m","m","a","n","d","s"," ","p","r","o","v","i","d","e","d">>, -1>>
              /\ ran' = <<>>
              /\ Len(ActionsOf(data')) = Len(ActionsOf(data)) + 1
              /\ LET a == ActionsOf(data')[Len(ActionsOf(data'))]
                 IN  /\ a.iteration = iteration
                     /\ a.commands = <<>>
                     /\ ~a.all_succeeded
                     /\ a.result_summary = <<"[","F","A","I","L","]"," ","R","E","J","E","C","T","E","D",":"," ","N","o"," ","c","o","m","m","a","n","d","s"," ","p","r","o","v","i","d","e","d">>
              /\ file' = save(file, data'[1]) ]_vars

\* C18 witness: a response that is a bare command line, without markers,
\* ended the run with a rejected Action.
C18_Witness ==
    /\ pc = "exit"
    /\ response = r_bare_cmd
    /\ commands = <<>>
    /\ outcome = "Aborted_invalid_command"
    /\ validation = <<FALSE, <<"N","o"," ","c","o","m","m","a","n","d","s"," ","p","r","o","v","i","d","e","d">>, -1>>
    /\ LastAction.result_summary = <<"[","F","A","I","L","]"," ","R","E","J","E","C","T","E","D",":"," ","N","o"," ","c","o","m","m","a","n","d","s"," ","p","r","o","v","i","d","e","d">>

\* the non-blank lines of the section, stripped, in their order
NonBlank(lines) ==
    SelectSeq([i \in 1..Len(lines) |-> Strip(lines[i])], LAMBDA l : l # <<>>)

\* C19: extract_blocks returns at most 5 commands, and they are the first
\* five non-blank lines of the command section in their order; further
\* lines are dropped.
C19_FirstFiveLines ==
    pc = "fn_done" =>
        /\ Len(commands) <= 5
        /\ Len(commands) = Min(5, Len(NonBlank(section)))
        /\ \A i \in 1..Len(commands) : commands[i] = NonBlank(section)[i]
        /\ observation = <<"A">>
        /\ reasoning = <<"B">>

\* C19 witness: a section of seven lines, one of them blank among the first
\* five, gave five commands; the sixth non-blank line was dropped.
C19_Witness ==
    /\ pc = "fn_done"
    /\ Len(section) = 7
    /\ Len(NonBlank(section)) = 6
    /\ \E i \in 1..5 : Strip(section[i]) = <<>>
    /\ Len(commands) = 5
    /\ commands[5] = Strip(section[6])

\* the lines of the rendered context that open an Action: "  [n] ..."
RenderedActions ==
    SelectSeq(SplitLines(context), LAMBDA l : StartsWith(l, <<" "," ","[">>))

\* the rendered Actions are the last n of the ledger, in ledger order
RendersLast(n) ==
    /\ Len(RenderedActions) = n
    /\ \A i \in 1..n :
          LET a == ActionsOf(data)[Len(ActionsOf(data)) - n + i]
          IN  StartsWith(RenderedActions[i], <<" "," ","[">> \o IntStr(a.iteration) \o <<"]"," ">>)

\* C20 (as claimed): for every max_actions >= 0 and every ledger the
\* rendered context holds at most max_actions Actions, the most recent ones
\* in ledger order.
C20_BoundedWindow ==
    pc = "fn_done" =>
        /\ Len(RenderedActions) <= max_actions
        /\ RendersLast(Min(max_actions, Len(ActionsOf(data))))

\* what does hold of the window: for max_actions >= 1 it is the last
\* max_actions Actions (all of them when the ledger is shorter); for
\* max_actions = 0 it is the whole ledger
C20_WindowAsCoded ==
    pc = "fn_done" =>
        IF max_actions >= 1
        THEN RendersLast(Min(max_actions, Len(ActionsOf(data))))
        ELSE RendersLast(Len(ActionsOf(data)))

\* C21: resuming a stored session under another goal, without reset,
\* changes the goal field and nothing else (status, started_at, iterations,
\* the Actions, and completed_at where present), in memory and in the file;
\* resuming under the same goal changes nothing and does not write the file.
C21_ReconcileGoalOnly ==
    [][ (pc = "start" /\ file # NoFile /\ ~reset /\ data' # NoData) =>
            /\ DOMAIN data'[1] = DOMAIN load(file)
            /\ \A k \in DOMAIN load(file) \ {"goal"} : data'[1][k] = load(file)[k]
            /\ data'[1].goal = goal
            /\ load(file') = data'[1]
            /\ load(file).goal = goal => (file' = file /\ data'[1] = load(file)) ]_vars

\* C21 witness: a completed session stored under "open files" has been
\* loaded under "close files"; only its goal differs from what was stored.
C21_Witness ==
    /\ pc = "loop"
    /\ iteration = 0
    /\ ~reset
    /\ data[1].goal = "close files"
    /\ [data[1] EXCEPT !.goal = "open files"] = PriorCompleted(plat, input_tool)
    /\ load(file) = data[1]

\* the steps main() can take from one position to the next
PcOrder ==
    { <<"start", "loop">>, <<"start", "exit">>,
      <<"loop", "call">>, <<"loop", "exit">>,
      <<"call", "parse">>, <<"call", "exit">>,
      <<"parse", "check">>,
      <<"check", "mark">>, <<"check", "execute">>, <<"check", "exit">>,
      <<"mark", "exit">>,
      <<"execute", "execute">>, <<"execute", "append">>,
      <<"append", "loop">> }

\* C22: the loop is linear, never revisits a position and retries nothing.
\* Every step follows the order call, parse, validate, execute, append; the
\* iteration number changes only by +1 on entering an iteration; an
\* iteration makes one backend call, validates once and executes each
\* command of its batch at most once; an Action is appended only at the end
\* of an iteration; and from a terminal state no step is taken.
C22_LinearNoRetry ==
    [][ /\ <<pc, pc'>> \in PcOrder
        /\ iteration' = IF pc = "loop" /\ pc' = "call"
                        THEN iteration + 1 ELSE iteration
        /\ calls' = IF pc = "call" THEN calls + 1 ELSE calls
        /\ pc = "call" => calls = iteration - 1
        /\ validation' # validation => pc = "check"
        /\ (pc = "execute" /\ pc' = "execute")
              => /\ Len(results') = Len(results) + 1
                 /\ ran' = Append(ran, commands[Len(results')])
        /\ (ran' # ran /\ ran' # <<>>) => pc = "execute"
        /\ appended' = IF \/ pc = "append"
                          \/ pc = "check" /\ pc' \in {"mark", "exit"}
                       THEN appended + 1 ELSE appended
        /\ (data # NoData /\ ActionsOf(data') # ActionsOf(data))
              => appended' = appended + 1
        /\ pc # "exit" ]_vars

\* C22 witness: the second iteration has called, parsed, validated and
\* executed once each and is about to append, after a first iteration whose
\* batch had failed.
C22_Witness ==
    /\ pc = "append"
    /\ iteration = 2
    /\ calls = 2
    /\ appended = 1
    /\ Len(ran) = Len(results)
    /\ ~LastAction.all_succeeded

\* the four terminal states of the loop
LoopTerminal ==
    {"GoalAchieved", "MaxIterationsReached", "Aborted_backend_error",
     "Aborted_invalid_command"}

\* C23: every run terminates.  When each backend call and each command
\* execution returns, the process eventually exits, a process that entered
\* the loop in one of the four terminal states; it never makes more than
\* max_iter iterations, backend calls or appends, and with max_iter = 0 it
\* makes no iteration, backend call or execution at all.
C23_Terminates ==
    /\ <>(pc = "exit" /\ (data # NoData => outcome \in LoopTerminal))
    /\ [](/\ iteration <= max_iter
          /\ calls <= iteration
          /\ appended <= iteration
          /\ max_iter = 0 => (calls = 0 /\ ran = <<>> /\ appended = 0)
          /\ (max_iter = 0 /\ pc = "exit" /\ data # NoData)
                => outcome = "MaxIterationsReached")

\* C23 witness: a run with max_iter = 0 has ended in MaxIterationsReached
\* without an iteration.
C23_Witness ==
    /\ pc = "exit"
    /\ data # NoData
    /\ max_iter = 0
    /\ iteration = 0
    /\ calls = 0
    /\ outcome = "MaxIterationsReached"
    /\ exit_code = <<0>>

\* cmd starts with none of the prefixes allowed on a supported platform
LacksPrefix(cmd, p, tool) ==
    \A k \in 1..Len(allowed_prefixes(p, tool)) :
        ~StartsWith(cmd, allowed_prefixes(p, tool)[k])

\* cmd contains one of the listed forbidden substrings
AnyForbidden(cmd) ==
    \E k \in 1..Len(ClaimedForbidden) : HasForbidden(cmd, k)

\* C24: the validator's rules are applied in order and the first violation
\* wins.  The empty batch is rejected as "No commands provided" with no
\* failing index (-1).  A rejected non-empty batch reports the least index
\* of an invalid command (0-based, "Command i+1: " in the message, with
\* that command's own reason and nothing about later commands), and when
\* that command, on a supported platform, both lacks an allowed prefix and
\* contains a forbidden substring, the reason is the prefix one.  An
\* accepted batch has no invalid command and no failing index.
C24_FirstViolationWins ==
    pc = "fn_done" =>
        /\ commands = <<>>
              => validation = <<FALSE, <<"N","o"," ","c","o","m","m","a","n","d","s"," ","p","r","o","v","i","d","e","d">>, -1>>
        /\ (commands # <<>> /\ ~validation[1]) =>
              /\ validation[3] \in 0..(Len(commands) - 1)
              /\ ~validate_command(commands[validation[3] + 1], plat,
                                   input_tool)[1]
              /\ \A j \in 1..validation[3] :
                    validate_command(commands[j], plat, input_tool)[1]
              /\ validation[2]
                    = <<"C","o","m","m","a","n","d"," ">> \o IntStr(validation[3] + 1) \o <<":"," ">>
                      \o validate_command(commands[validation[3] + 1], plat,
                                          input_tool)[2]
              /\ (/\ plat \in {MACOS, LINUX}
                  /\ LacksPrefix(commands[validation[3] + 1], plat, input_tool)
                  /\ AnyForbidden(commands[validation[3] + 1]))
                 => StartsWith(validation[2],
                               <<"C","o","m","m","a","n","d"," ">> \o IntStr(validation[3] + 1)
                                 \o <<":"," ","C","o","m","m","a","n","d"," ","m","u","s","t"," ","s","t","a","r","t"," ","w","i","t","h"," ","o","n","e"," ","o","f"," ">>)
        /\ (commands # <<>> /\ validation[1]) =>
              /\ validation[3] = -1
              /\ \A j \in 1..Len(commands) :
                    validate_command(commands[j], plat, input_tool)[1]

\* C24 witness: of two invalid commands the first, which lacks a prefix and
\* holds a forbidden substring, was reported, and the second was not.
C24_Witness ==
    /\ pc = "fn_done"
    /\ plat = LINUX
    /\ input_tool = "xdotool"
    /\ Len(commands) = 2
    /\ LacksPrefix(commands[1], plat, input_tool)
    /\ AnyForbidden(commands[1])
    /\ ~validate_command(commands[2], plat, input_tool)[1]
    /\ commands[2] # commands[1]
    /\ validation[3] = 0

\* C25 (as claimed): the session's iteration count equals the number of
\* Actions in the ledger, in memory and in the file, at every point of
\* every run: a fresh one, and one resumed without reset on the file an
\* earlier run left.
C25_IterationsCountActions ==
    /\ data # NoData => data[1].iterations = Len(ActionsOf(data))
    /\ file # NoFile => load(file).iterations = Len(load(file).actions)

\* C26 (as claimed): completed is terminal.  Once the session's status is
\* "completed", in this run or in the file a resumed run loaded, no step
\* calls the backend, executes a command or appends an Action.
C26_CompletedIsTerminal ==
    [][ (data # NoData /\ data[1].status = "completed")
            => /\ calls' = calls
               /\ ran' = ran
               /\ appended' = appended
               /\ ActionsOf(data') = ActionsOf(data) ]_vars

\* the place of the first "&&" of cmd
AndAt(cmd) ==
    CHOOSE i \in 1..Len(cmd) :
        MatchAt(cmd, AndAnd, i) /\ \A j \in 1..(i - 1) : ~MatchAt(cmd, AndAnd, j)

\* C27 (as claimed): every command of an accepted batch that contains "&&"
\* is exactly two invocations: it holds one "&&" only, begins with the
\* pointer move, and the click follows the "&&" with nothing chained
\* after it.
C27_ExceptionIsTwoInvocations ==
    (pc = "fn_done" /\ validation[1]) =>
        \A i \in 1..Len(commands) :
            Contains(commands[i], AndAnd) =>
                /\ input_tool = "ydotool"
                /\ StartsWith(commands[i], MoveHead)
                /\ MatchAt(commands[i], ClickHead,
                           SkipSpaces(commands[i], AndAt(commands[i]) + 2))
                /\ CountAnd(commands[i]) = 1

\* C28 (as claimed): the Action an iteration appended records what
\* execute_commands did in that iteration.  Its executed_count is the number
\* of commands handed to the shell (none when the goal was signalled or the
\* batch was rejected), and its all_succeeded is true only if every command
\* of the batch was run and succeeded.
C28_CountsReflectExecution ==
    (data # NoData /\ before # <<>> /\ OneAppended) =>
        /\ LastAction.executed_count = Len(ran)
        /\ LastAction.all_succeeded
              => /\ ran = commands
                 /\ Len(results) = Len(commands)
                 /\ \A i \in 1..Len(results) : results[i][2]

====
